---- MODULE Spec2Model ----
(***************************************************************************)
(* DateTime expressions of datafusion/src/physical_plan/                   *)
(* datetime_expressions.rs: to_timestamp and its three precision variants, *)
(* make_now, date_trunc and date_part, over the scalar/array duality       *)
(* ColumnarValue.                                                          *)
(*                                                                         *)
(* Encodings.  TLC's integers are 32 bits wide, an i64 count of            *)
(* nanoseconds is not.  A timestamp handed to date_trunc / date_part /     *)
(* make_now is therefore written in mixed radix, <<d, s, n>> standing for  *)
(* the integer (d * 86400 + s) * 10^9 + n with 0 <= s < 86400 and          *)
(* 0 <= n < 10^9 (d may be negative); the order of the integers is the     *)
(* lexicographic order of the triples and every i64 has exactly one        *)
(* triple.  The values the text parser returns are chosen within two       *)
(* seconds of the epoch and are written as plain integers, so that the     *)
(* divisions of the precision variants are computed on the number itself.  *)
(* Option<T> is a sequence of length 0 (None) or 1 (Some).  A value of an  *)
(* enum is the tuple of its variant and its fields, so that TLC compares   *)
(* the variants before it compares payloads of different types.            *)
(***************************************************************************)
EXTENDS Integers, Sequences, FiniteSets, TLC

VARIABLES
    overflow_checks,   \* build profile: does i64 arithmetic overflow panic (true) or wrap
    gran, t1, t2,      \* SpecTrunc: the inputs of date_trunc_single
    r1, r2, rr,        \* SpecTrunc: date_trunc_single(gran, t1), (gran, t2), (gran, r1)
    args,              \* SpecCall / SpecParse: the argument slice of the call
    call, ret, oplog,  \* SpecCall: the function called, what it returned, the inputs its element operation saw
    res,               \* SpecParse: the result of each to_timestamp function on args
    now_fn,            \* SpecNow: the closure make_now returned (its captured Option<i64>), or unbound
    now_instant,       \* SpecNow: the instant make_now was given
    now_rets           \* SpecNow: what the calls of the closure returned, in order

vars == <<overflow_checks, gran, t1, t2, r1, r2, rr, args, call, ret, oplog, res,
          now_fn, now_instant, now_rets>>

----------------------------------------------------------------------------
(* Bounds of the model *)

\* longest Array argument
MaxLen == 2
\* days drawn on each side of an anchor date
DayWindow == 3
\* most calls of one bound now()
MaxCalls == 2

----------------------------------------------------------------------------
(* Results *)

None == <<>>
Some(x) == <<x>>
IsSome(o) == Len(o) = 1

Ok(v) == [kind |-> "Ok", val |-> v]
Err(variant, msg) == [kind |-> "Err", val |-> <<variant, msg>>]
\* a panic unwinds through every caller of this file
Panic == [kind |-> "Panic", val |-> <<>>]
\* not yet called
Pending == [kind |-> "Pending", val |-> <<>>]

IsOk(o) == o.kind = "Ok"
IsErr(o) == o.kind = "Err"

----------------------------------------------------------------------------
(* i64 nanoseconds in mixed radix *)

SecondsPerDay == 60 * 60 * 24
NANOSECONDS == 1000000000

\* i64::MIN = -9223372036854775808 and i64::MAX = 9223372036854775807
I64Min == <<-106752, 763, 145224192>>
I64Max == <<106751, 85636, 854775807>>
\* 2^64 = 18446744073709551616
TwoTo64 == <<213503, 84873, 709551616>>

Less(a, b) ==
    \/ a[1] < b[1]
    \/ a[1] = b[1] /\ a[2] < b[2]
    \/ a[1] = b[1] /\ a[2] = b[2] /\ a[3] < b[3]
Leq(a, b) == a = b \/ Less(a, b)

InI64(v) == Leq(I64Min, v) /\ Leq(v, I64Max)

\* carries of a triple whose seconds and nanoseconds left their ranges
Normalize(v) ==
    LET s == v[2] + (v[3] \div NANOSECONDS)
    IN <<v[1] + (s \div SecondsPerDay), s % SecondsPerDay, v[3] % NANOSECONDS>>

Plus(a, b) == Normalize(<<a[1] + b[1], a[2] + b[2], a[3] + b[3]>>)
Minus(a, b) == Normalize(<<a[1] - b[1], a[2] - b[2], a[3] - b[3]>>)

\* two's complement wrap of a result in (i64::MIN - 2^64, i64::MAX + 2^64)
WrapI64(v) ==
    IF Less(v, I64Min) THEN Plus(v, TwoTo64)
    ELSE IF Less(I64Max, v) THEN Minus(v, TwoTo64)
    ELSE v

\* v / NANOSECONDS of Rust (toward zero), as <<days, second of day>> of the quotient
DivNanos(v) ==
    IF v[1] < 0 /\ v[3] > 0
    THEN LET n == Normalize(<<v[1], v[2] + 1, 0>>) IN <<n[1], n[2]>>
    ELSE <<v[1], v[2]>>

\* v % NANOSECONDS of Rust: the remainder has the sign of v
RemNanos(v) == IF v[1] < 0 /\ v[3] > 0 THEN v[3] - NANOSECONDS ELSE v[3]

----------------------------------------------------------------------------
(* chrono: the proleptic Gregorian calendar of NaiveDate *)

\* <<year, month, day>> of the day `z` days after 1970-01-01
CivilFromDays(z) ==
    LET zz == z + 719468
        era == zz \div 146097
        doe == zz - era * 146097
        yoe == (doe - (doe \div 1460) + (doe \div 36524) - (doe \div 146096)) \div 365
        doy == doe - (365 * yoe + (yoe \div 4) - (yoe \div 100))
        mp == (5 * doy + 2) \div 153
        d == doy - ((153 * mp + 2) \div 5) + 1
        m == IF mp < 10 THEN mp + 3 ELSE mp - 9
        y == yoe + era * 400 + (IF m <= 2 THEN 1 ELSE 0)
    IN <<y, m, d>>

DaysFromCivil(y, m, d) ==
    LET yy == IF m <= 2 THEN y - 1 ELSE y
        era == yy \div 400
        yoe == yy - era * 400
        doy == ((153 * (IF m > 2 THEN m - 3 ELSE m + 9) + 2) \div 5) + d - 1
        doe == yoe * 365 + (yoe \div 4) - (yoe \div 100) + doy
    IN era * 146097 + doe - 719468

\* A NaiveDateTime: the date as days after 1970-01-01, the second of the day, the nanosecond
NaiveDateTime(days, secs, frac) == [days |-> days, secs |-> secs, frac |-> frac]

\* Datelike::weekday() as i64: Mon = 0 .. Sun = 6 (1970-01-01 was a Thursday)
weekday(d) == (d.days + 3) % 7

with_nanosecond(d, nano) == [d EXCEPT !.frac = nano]
with_second(d, sec) == [d EXCEPT !.secs = (d.secs \div 60) * 60 + sec]
with_minute(d, min) == [d EXCEPT !.secs = (d.secs \div 3600) * 3600 + min * 60 + (d.secs % 60)]
with_hour(d, hour) == [d EXCEPT !.secs = hour * 3600 + (d.secs % 3600)]
with_day0(d, day0) ==
    LET c == CivilFromDays(d.days) IN [d EXCEPT !.days = DaysFromCivil(c[1], c[2], day0 + 1)]
with_month0(d, month0) ==
    LET c == CivilFromDays(d.days) IN [d EXCEPT !.days = DaysFromCivil(c[1], month0 + 1, c[3])]

\* d - Duration::seconds(k)
minus_seconds(d, k) ==
    LET s == d.secs - k
    IN [d EXCEPT !.days = d.days + (s \div SecondsPerDay), !.secs = s % SecondsPerDay]

\* arrow2 temporal_conversions::timestamp_ns_to_datetime:
\*   NaiveDateTime::from_timestamp(v / NANOSECONDS, (v % NANOSECONDS) as u32)
\* A negative remainder r casts to 2^32 + r > 2 * 10^9, the largest nanosecond
\* count from_timestamp accepts, and from_timestamp panics on it.
timestamp_ns_to_datetime(v) ==
    LET q == DivNanos(v)
        r == RemNanos(v)
    IN IF r < 0 THEN Panic ELSE Ok(NaiveDateTime(q[1], q[2], r))

\* chrono NaiveDateTime::timestamp_nanos: self.timestamp() * 1_000_000_000 + subsec nanos,
\* in i64: an overflow panics under overflow checks and wraps without them
timestamp_nanos(d) ==
    LET as_ns == <<d.days, d.secs, 0>>
        total == <<d.days, d.secs, d.frac>>
    IN IF InI64(as_ns) /\ InI64(total) THEN Ok(total)
       ELSE IF overflow_checks THEN Panic
       ELSE Ok(WrapI64(total))

----------------------------------------------------------------------------
(* date_trunc_single *)

Granularities == {"second", "minute", "hour", "day", "week", "month", "year"}

UnsupportedGranularity(g) ==
    Err("Execution", <<"Unsupported date_trunc granularity: ", g>>)

\* the match of lines 191-223 on a datetime whose nanosecond is already zero
cascade(granularity, value) ==
    LET sec0 == with_second(value, 0)
        min0 == with_minute(sec0, 0)
        hour0 == with_hour(min0, 0)
    IN CASE granularity = "second" -> value
         [] granularity = "minute" -> sec0
         [] granularity = "hour" -> min0
         [] granularity = "day" -> hour0
         [] granularity = "week" -> minus_seconds(hour0, 60 * 60 * 24 * weekday(hour0))
         [] granularity = "month" -> with_day0(hour0, 0)
         [] granularity = "year" -> with_month0(with_day0(hour0, 0), 0)

\* a truncation that takes a granularity it does not know for "second", which C6 rules out
date_trunc_single_lenient(granularity, value) ==
    LET dt == timestamp_ns_to_datetime(value)
    IN IF ~IsOk(dt) THEN Panic
       ELSE timestamp_nanos(cascade(IF granularity \in Granularities THEN granularity
                                    ELSE "second",
                                    with_nanosecond(dt.val, 0)))

date_trunc_single(granularity, value) ==
    LET dt == timestamp_ns_to_datetime(value)
    IN IF ~IsOk(dt) THEN Panic
       ELSE IF granularity \notin Granularities THEN UnsupportedGranularity(granularity)
       ELSE timestamp_nanos(cascade(granularity, with_nanosecond(dt.val, 0)))

----------------------------------------------------------------------------
(* The timestamps date_trunc_single is tried on *)

\* 1970-01-01, 2020-09-08 / 2021-01-01 / 2020-01-01 (date_trunc_test), 2020-03-01 after a
\* leap February, 1900-03-01 after a century February of 28 days, the day of i64::MIN
AnchorDays == {0, 18513, 18628, 18262, 18322, -25508, -106752}

SampleDays ==
    {a + k : a \in AnchorDays, k \in (-DayWindow)..DayWindow} \cap (I64Min[1]..I64Max[1])

\* 00:00:00, 00:12:44 (the first whole second of the i64 range), 13:42:29, 23:59:59
SampleSecs == {0, 49349, 86399}
SampleFracs == {0, 190855000}

\* i64::MIN, the first whole second of the i64 range (1677-09-21T00:12:44Z), i64::MAX
EdgeTimestamps == {I64Min, <<-106752, 764, 0>>, I64Max}

Timestamps ==
    {v \in SampleDays \X SampleSecs \X SampleFracs : InI64(v)} \cup EdgeTimestamps

GranularityNames == Granularities \cup {"century"}

----------------------------------------------------------------------------
(* Value model: DataType, ScalarValue, ColumnarValue *)

Utf8 == <<"Utf8">>
LargeUtf8 == <<"LargeUtf8">>
Int64 == <<"Int64">>
Int32 == <<"Int32">>
Boolean == <<"Boolean">>
Timestamp(unit, tz) == <<"Timestamp", unit, tz>>

\* ScalarValue::variant(v) and, for the timestamps, ScalarValue::variant(v, tz)
Scalar(variant, v, tz) == <<variant, v, tz>>
Variant(sv) == sv[1]
Payload(sv) == sv[2]
Tz(sv) == sv[3]

ColumnarScalar(sv) == <<"Scalar", sv>>
ColumnarArray(data_type, values) == <<"Array", data_type, values>>
Shape(c) == c[1]
ScalarOf(c) == c[2]
DataTypeOf(c) == c[2]
ValuesOf(c) == c[3]

\* the ScalarValue variant that holds a value of a data type
VariantOf(data_type) ==
    IF data_type[1] = "Timestamp" THEN "Timestamp" \o data_type[2] ELSE data_type[1]

\* ScalarValue::get_datatype
DataTypeOfScalar(sv) ==
    CASE Variant(sv) = "TimestampNanosecond" -> Timestamp("Nanosecond", Tz(sv))
      [] Variant(sv) = "TimestampMicrosecond" -> Timestamp("Microsecond", Tz(sv))
      [] Variant(sv) = "TimestampMillisecond" -> Timestamp("Millisecond", Tz(sv))
      [] Variant(sv) = "TimestampSecond" -> Timestamp("Second", Tz(sv))
      [] OTHER -> <<Variant(sv)>>

\* ScalarValue::new_null(data_type) and the conversion of a PrimitiveScalar of that
\* data type: the scalar of the variant of the data type, with its timezone
ScalarOfType(data_type, v) ==
    Scalar(VariantOf(data_type), v, IF data_type[1] = "Timestamp" THEN data_type[3] ELSE None)

\* scalar.to_array(): the scalar as an array of one element
to_array(sv) == ColumnarArray(DataTypeOfScalar(sv), <<Payload(sv)>>)

\* ScalarValue::try_from_array(array, index)
try_from_array(arr, index) == ScalarOfType(DataTypeOf(arr), ValuesOf(arr)[index + 1])

\* {:?} of a DataType and of a ScalarValue: the variant, and for a scalar its payload
DebugDataType(data_type) == data_type
DebugScalar(sv) == <<Variant(sv), Payload(sv)>>

\* Display of a DataFusionError: its kind's prefix, then the message
Display(e) ==
    CASE e[1] = "Internal" -> <<"Internal error: ">> \o e[2]
      [] e[1] = "Execution" -> <<"Execution error: ">> \o e[2]
      [] OTHER -> <<"Arrow error: ">> \o e[2]

\* the arrays an Int64Array downcast accepts: the logical types stored as i64
IsInt64Array(data_type) == data_type[1] \in {"Int64", "Timestamp"}

----------------------------------------------------------------------------
(* The text parser, and the texts of the model *)

\* texts the parser accepts, with the nanoseconds since the epoch they denote
ParseTable ==
    [s \in {"1970-01-01T00:00:00Z", "1970-01-01T00:00:01.5Z", "1970-01-01T00:00:00.0015Z",
            "1970-01-01T00:00:00.0000015Z", "1969-12-31T23:59:59.5Z",
            "1969-12-31T23:59:58.4985Z", "1969-12-31T23:59:59.9999985Z"} |->
        CASE s = "1970-01-01T00:00:00Z" -> 0
          [] s = "1970-01-01T00:00:01.5Z" -> 1500000000
          [] s = "1970-01-01T00:00:00.0015Z" -> 1500000
          [] s = "1970-01-01T00:00:00.0000015Z" -> 1500
          [] s = "1969-12-31T23:59:59.5Z" -> -500000000
          [] s = "1969-12-31T23:59:58.4985Z" -> -1501500000
          [] s = "1969-12-31T23:59:59.9999985Z" -> -1500]

ParseableTexts == DOMAIN ParseTable
FieldNames == GranularityNames \cup {"HOUR", "Year"}
AllTexts == ParseableTexts \cup FieldNames \cup {"not a timestamp", ""}

\* crate::arrow_temporal_util::string_to_timestamp_nanos
string_to_timestamp_nanos(s) ==
    IF s \in ParseableTexts THEN Ok(ParseTable[s])
    ELSE Err("ArrowError", <<"Error parsing '", s, "' as timestamp">>)

\* the error of the parser converted to a DataFusionError
string_to_timestamp_nanos_shim(s) == string_to_timestamp_nanos(s)

\* a division that rounds toward minus infinity, which C3 rules out
FloorDiv(n, d) == n \div d

\* n / d of Rust on i64, d > 0: the quotient rounded toward zero
RustDiv(n, d) == IF n >= 0 THEN n \div d ELSE -((-n) \div d)

\* Result::map: f applied to an Ok value, an Err passed on
MapDiv(r, d) == IF IsOk(r) THEN Ok(RustDiv(r.val, d)) ELSE r

----------------------------------------------------------------------------
(* Element Dispatcher and Type Router.  An operation `op` is a function from *)
(* its inputs to results; every evaluation returns [out, seen]: the result    *)
(* and the elements (as Option) on which op was invoked, in order.           *)

Returned(out, seen) == [out |-> out, seen |-> seen]

\* a collection that filters the null elements out, which C2 rules out
RECURSIVE collect_non_null(_, _, _, _)
collect_non_null(values, op, done, seen) ==
    IF values = <<>> THEN Returned(Ok(done), seen)
    ELSE LET x == Head(values)
         IN IF ~IsSome(x) THEN collect_non_null(Tail(values), op, done, seen)
            ELSE LET y == op[x[1]]
                 IN IF IsOk(y)
                    THEN collect_non_null(Tail(values), op, Append(done, Some(y.val)),
                                          Append(seen, x))
                    ELSE Returned(y, Append(seen, x))

\* a collection that turns a failure of op into a null element, which C8 rules out
RECURSIVE collect_lenient(_, _, _, _)
collect_lenient(values, op, done, seen) ==
    IF values = <<>> THEN Returned(Ok(done), seen)
    ELSE LET x == Head(values)
         IN IF ~IsSome(x) THEN collect_lenient(Tail(values), op, Append(done, None), seen)
            ELSE LET y == op[x[1]]
                 IN collect_lenient(Tail(values), op,
                                    Append(done, IF IsOk(y) THEN Some(y.val) ELSE None),
                                    Append(seen, x))

\* array.iter().map(|x| x.map(op).transpose()).collect(): op on the elements that
\* are not null, from the first on, until one fails
RECURSIVE try_collect(_, _, _, _)
try_collect(values, op, done, seen) ==
    IF values = <<>> THEN Returned(Ok(done), seen)
    ELSE LET x == Head(values)
         IN IF ~IsSome(x) THEN try_collect(Tail(values), op, Append(done, None), seen)
            ELSE LET y == op[x[1]]
                 IN IF IsOk(y)
                    THEN try_collect(Tail(values), op, Append(done, Some(y.val)),
                                     Append(seen, x))
                    ELSE Returned(y, Append(seen, x))

\* T is the offset type of the Utf8Array the first argument is downcast to
unary_string_to_primitive_function(arrays, op, name, T) ==
    IF Len(arrays) # 1
    THEN Returned(Err("Internal", <<Len(arrays), " args were supplied but ", name,
                                    " takes exactly one argument">>), <<>>)
    ELSE IF DataTypeOf(arrays[1]) # (IF T = "i32" THEN Utf8 ELSE LargeUtf8)
    THEN Returned(Err("Internal", <<"failed to downcast to string">>), <<>>)
    ELSE try_collect(ValuesOf(arrays[1]), op, <<>>, <<>>)

\* a message that names the function where the data type belongs, which C7 rules out
UnsupportedFunction(other, name) ==
    Err("Internal", <<"Unsupported data type ", name, " for function ", other>>)

UnsupportedDataType(other, name) ==
    Err("Internal", <<"Unsupported data type ", other, " for function ", name>>)

\* PrimitiveArray::to(data_type) on the array an Ok result holds
ToDataType(r, data_type) ==
    IF IsOk(r.out) THEN Returned(Ok(ColumnarArray(data_type, r.out.val)), r.seen) ELSE r

handle(a, op, name, data_type) ==
    IF Len(a) = 0 THEN Returned(Panic, <<>>)      \* &args[0] of an empty slice
    ELSE IF Shape(a[1]) = "Array"
    THEN CASE DataTypeOf(a[1]) = Utf8 ->
                ToDataType(unary_string_to_primitive_function(<<a[1]>>, op, name, "i32"),
                           data_type)
           [] DataTypeOf(a[1]) = LargeUtf8 ->
                ToDataType(unary_string_to_primitive_function(<<a[1]>>, op, name, "i64"),
                           data_type)
           [] OTHER ->
                Returned(UnsupportedDataType(DebugDataType(DataTypeOf(a[1])), name), <<>>)
    ELSE LET scalar == ScalarOf(a[1])
         IN IF Variant(scalar) \in {"Utf8", "LargeUtf8"}
            THEN IF IsSome(Payload(scalar))
                 THEN LET y == op[Payload(scalar)[1]]
                      IN IF IsOk(y)
                         THEN Returned(Ok(ColumnarScalar(ScalarOfType(data_type, Some(y.val)))),
                                       <<Payload(scalar)>>)
                         ELSE Returned(y, <<Payload(scalar)>>)
                 ELSE Returned(Ok(ColumnarScalar(ScalarOfType(data_type, None))), <<>>)
            ELSE Returned(UnsupportedDataType(DebugScalar(scalar), name), <<>>)

----------------------------------------------------------------------------
(* Timestamp functions *)

to_timestamp(a) ==
    handle(a, [s \in AllTexts |-> string_to_timestamp_nanos_shim(s)],
           "to_timestamp", Timestamp("Nanosecond", None))

to_timestamp_millis(a) ==
    handle(a, [s \in AllTexts |-> MapDiv(string_to_timestamp_nanos_shim(s), 1000000)],
           "to_timestamp_millis", Timestamp("Millisecond", None))

to_timestamp_micros(a) ==
    handle(a, [s \in AllTexts |-> MapDiv(string_to_timestamp_nanos_shim(s), 1000)],
           "to_timestamp_micros", Timestamp("Microsecond", None))

to_timestamp_seconds(a) ==
    handle(a, [s \in AllTexts |-> MapDiv(string_to_timestamp_nanos_shim(s), 1000000000)],
           "to_timestamp_seconds", Timestamp("Second", None))

----------------------------------------------------------------------------
(* Now binder *)

\* make_now: the Option<i64> the closure captures
make_now(now_ts) ==
    LET n == timestamp_nanos(now_ts)
    IN IF IsOk(n) THEN Ok(Some(n.val)) ELSE Panic

\* a closure whose value follows its arguments, which C10 rules out
now_of_arguments(now_ts, arg) ==
    Ok(ColumnarScalar(Scalar("TimestampNanosecond",
                             IF Len(arg) = 0 THEN now_ts ELSE None, Some("UTC"))))

\* the closure make_now returns, on the captured value and an argument slice
now(now_ts, arg) ==
    Ok(ColumnarScalar(Scalar("TimestampNanosecond", now_ts, Some("UTC"))))

----------------------------------------------------------------------------
(* date_trunc.  The messages are those of the source without their back quotes. *)

\* the timestamps the arguments of date_trunc and date_part hold:
\* 2020-09-08T13:42:29.190855Z, 1969-12-28T00:00:00Z, 1969-12-31T23:59:59.999999999Z
CallTimestamps == {<<18513, 49349, 190855000>>, <<-4, 0, 0>>, <<-1, 86399, 999999999>>}

\* the values an array of i64 holds: the timestamps and the 1 of Int64Array [1]
Int64Values == CallTimestamps \cup {<<0, 0, 1>>}

IsNonNullUtf8Scalar(c) ==
    Shape(c) = "Scalar" /\ Variant(ScalarOf(c)) = "Utf8" /\ IsSome(Payload(ScalarOf(c)))

date_trunc(a) ==
    IF Len(a) < 2 THEN Returned(Panic, <<>>)      \* (&args[0], &args[1])
    ELSE IF ~IsNonNullUtf8Scalar(a[1])
    THEN Returned(Err("Execution",
                      <<"Granularity of date_trunc must be non-null scalar Utf8">>), <<>>)
    ELSE LET granularity == Payload(ScalarOf(a[1]))[1]
             f == [x \in Int64Values |-> date_trunc_single(granularity, x)]
             array == a[2]
         IN IF Shape(array) = "Scalar" /\ Variant(ScalarOf(array)) = "TimestampNanosecond"
            THEN LET r == try_collect(<<Payload(ScalarOf(array))>>, f, <<>>, <<>>)
                 IN IF IsOk(r.out)
                    THEN Returned(Ok(ColumnarScalar(Scalar("TimestampNanosecond",
                                                           r.out.val[1], Tz(ScalarOf(array))))),
                                  r.seen)
                    ELSE r
            ELSE IF Shape(array) = "Array"
            THEN IF ~IsInt64Array(DataTypeOf(array))
                 THEN Returned(Panic, <<>>)       \* downcast_ref::<Int64Array>().unwrap()
                 ELSE ToDataType(try_collect(ValuesOf(array), f, <<>>, <<>>),
                                 Timestamp("Nanosecond", None))
            ELSE Returned(Err("Execution",
                              <<"array of date_trunc must be non-null scalar Utf8">>), <<>>)

----------------------------------------------------------------------------
(* date_part *)

\* str::to_lowercase on the field names of the model
to_lowercase(s) ==
    CASE s = "HOUR" -> "hour"
      [] s = "Year" -> "year"
      [] OTHER -> s

\* arrow compute::temporal::{hour, year}: the field of every element that is not
\* null, read off timestamp_ns_to_datetime; an array that holds no timestamps is refused
RECURSIVE extract(_, _, _)
extract(values, field, done) ==
    IF values = <<>> THEN Ok(done)
    ELSE LET x == Head(values)
         IN IF ~IsSome(x) THEN extract(Tail(values), field, Append(done, None))
            ELSE LET dt == timestamp_ns_to_datetime(x[1])
                 IN IF ~IsOk(dt) THEN Panic
                    ELSE extract(Tail(values), field,
                                 Append(done, Some(IF field = "hour"
                                                   THEN dt.val.secs \div 3600
                                                   ELSE CivilFromDays(dt.val.days)[1])))

temporal(array, field, data_type) ==
    IF DataTypeOf(array)[1] # "Timestamp"
    THEN Err("ArrowError", <<"'", field, "' does not support type ", DataTypeOf(array)>>)
    ELSE LET r == extract(ValuesOf(array), field, <<>>)
         IN IF IsOk(r) THEN Ok(ColumnarArray(data_type, r.val)) ELSE r

temporal_hour(array) == temporal(array, "hour", <<"UInt32">>)
temporal_year(array) == temporal(array, "year", Int32)

\* cast::primitive_to_primitive::<u32, i32>: a value that does not fit becomes null
primitive_to_primitive(r, data_type) ==
    IF ~IsOk(r) THEN r
    ELSE Ok(ColumnarArray(data_type,
                          [i \in 1..Len(ValuesOf(r.val)) |->
                              LET x == ValuesOf(r.val)[i]
                              IN IF IsSome(x) /\ x[1] <= 2147483647 THEN x ELSE None]))

date_part(a) ==
    IF Len(a) # 2
    THEN Returned(Err("Execution", <<"Expected two arguments in DATE_PART">>), <<>>)
    ELSE IF ~IsNonNullUtf8Scalar(a[1])
    THEN Returned(Err("Execution",
                      <<"First argument of DATE_PART must be non-null scalar Utf8">>), <<>>)
    ELSE LET field == Payload(ScalarOf(a[1]))[1]
             is_scalar == Shape(a[2]) = "Scalar"
             array == IF is_scalar THEN to_array(ScalarOf(a[2])) ELSE a[2]
             arr == CASE to_lowercase(field) = "hour" ->
                            primitive_to_primitive(temporal_hour(array), Int32)
                      [] to_lowercase(field) = "year" -> temporal_year(array)
                      [] OTHER -> Err("Execution", <<"Date part '", field, "' not supported">>)
         IN IF ~IsOk(arr) THEN Returned(arr, <<>>)
            ELSE IF is_scalar
            THEN Returned(Ok(ColumnarScalar(try_from_array(arr.val, 0))), <<>>)
            ELSE Returned(arr, <<>>)

----------------------------------------------------------------------------
(* The arguments the functions are called on *)

\* every sequence over S of length at most n
SeqUpTo(S, n) == UNION {[1..k -> S] : k \in 0..n}

TextElements ==
    {None, Some("1970-01-01T00:00:01.5Z"), Some("1969-12-31T23:59:59.5Z"),
     Some("not a timestamp")}
TimestampElements == {None} \cup {Some(t) : t \in CallTimestamps}

TextArrays ==
    {ColumnarArray(dt, v) : dt \in {Utf8, LargeUtf8}, v \in SeqUpTo(TextElements, MaxLen)}
TimestampArrays ==
    {ColumnarArray(Timestamp("Nanosecond", None), v) :
        v \in SeqUpTo(TimestampElements, MaxLen)}
\* Int64Array::from_slice(&[1]) of to_timestamp_invalid_input_type, and a Boolean array
OtherArrays ==
    {ColumnarArray(Int64, <<Some(<<0, 0, 1>>)>>), ColumnarArray(Int64, <<None>>),
     ColumnarArray(Boolean, <<None>>)}

TextScalars ==
    {ColumnarScalar(Scalar(variant, v, None)) :
        variant \in {"Utf8", "LargeUtf8"},
        v \in {None} \cup {Some(s) : s \in ParseableTexts \cup {"not a timestamp"}}}
TimestampScalars ==
    {ColumnarScalar(Scalar("TimestampNanosecond", v, tz)) :
        v \in TimestampElements, tz \in {None, Some("UTC")}}
OtherScalars ==
    {ColumnarScalar(Scalar("Int64", Some(<<0, 0, 1>>), None)),
     ColumnarScalar(Scalar("Int64", None, None)),
     ColumnarScalar(Scalar("Boolean", None, None))}

ColumnarValues ==
    TextArrays \cup TimestampArrays \cup OtherArrays
        \cup TextScalars \cup TimestampScalars \cup OtherScalars

\* what is passed where date_trunc and date_part expect the granularity or field
NameArguments ==
    {ColumnarScalar(Scalar("Utf8", Some(s), None)) : s \in FieldNames}
        \cup {ColumnarScalar(Scalar("Utf8", None, None)),
              ColumnarScalar(Scalar("LargeUtf8", Some("day"), None)),
              ColumnarScalar(Scalar("Int64", Some(<<0, 0, 1>>), None)),
              ColumnarArray(Utf8, <<Some("day")>>)}

CallArguments ==
    {<<>>} \cup {<<x>> : x \in ColumnarValues \cup NameArguments}
           \cup {<<n, x>> : n \in NameArguments, x \in ColumnarValues}
           \cup {<<n, x, x>> : n \in NameArguments, x \in OtherScalars}

ToTimestampFns == {"to_timestamp", "to_timestamp_millis", "to_timestamp_micros",
                   "to_timestamp_seconds"}

\* the variables a specification does not use
IdleTrunc ==
    /\ gran = "second" /\ t1 = <<0, 0, 0>> /\ t2 = <<0, 0, 0>>
    /\ r1 = Pending /\ r2 = Pending /\ rr = Pending
IdleCall == call = "none" /\ ret = Pending /\ oplog = <<>>
IdleParse == res = [f \in ToTimestampFns |-> Pending]
IdleNow == now_fn = None /\ now_instant = None /\ now_rets = <<>>

InitTrunc ==
    /\ overflow_checks \in BOOLEAN
    /\ gran \in GranularityNames
    /\ t1 \in Timestamps
    /\ t2 \in {t \in Timestamps : Leq(t1, t) /\ t[1] - t1[1] <= 1}
    /\ r1 = Pending /\ r2 = Pending /\ rr = Pending
    /\ args = <<>>
    /\ IdleCall /\ IdleParse /\ IdleNow

\* date_trunc_single(gran, t1)
TruncFirst ==
    /\ r1 = Pending
    /\ r1' = date_trunc_single(gran, t1)
    /\ UNCHANGED <<overflow_checks, gran, t1, t2, r2, rr, args, call, ret, oplog, res,
                   now_fn, now_instant, now_rets>>

\* date_trunc_single(gran, t2)
TruncSecond ==
    /\ r2 = Pending
    /\ r2' = date_trunc_single(gran, t2)
    /\ UNCHANGED <<overflow_checks, gran, t1, t2, r1, rr, args, call, ret, oplog, res,
                   now_fn, now_instant, now_rets>>

\* date_trunc_single(gran, r1) on the value the first call returned
TruncAgain ==
    /\ IsOk(r1)
    /\ rr = Pending
    /\ rr' = date_trunc_single(gran, r1.val)
    /\ UNCHANGED <<overflow_checks, gran, t1, t2, r1, r2, args, call, ret, oplog, res,
                   now_fn, now_instant, now_rets>>

NextTrunc == TruncFirst \/ TruncSecond \/ TruncAgain

SpecTrunc == InitTrunc /\ [][NextTrunc]_vars

\* tests::date_trunc_test: the cases, as (original, granularity, expected)
date_trunc_test ==
    LET original == <<18513, 49349, 190855000>>     \* 2020-09-08T13:42:29.190855Z
        cases == {<<original, "second", <<18513, 49349, 0>>>>,
                  <<original, "minute", <<18513, 49320, 0>>>>,
                  <<original, "hour", <<18513, 46800, 0>>>>,
                  <<original, "day", <<18513, 0, 0>>>>,
                  <<original, "week", <<18512, 0, 0>>>>,
                  <<original, "month", <<18506, 0, 0>>>>,
                  <<original, "year", <<18262, 0, 0>>>>,
                  <<<<18628, 49349, 190855000>>, "week", <<18624, 0, 0>>>>,
                  <<<<18262, 49349, 190855000>>, "week", <<18260, 0, 0>>>>}
    IN \A c \in cases : date_trunc_single(c[2], c[1]) = Ok(c[3])

----------------------------------------------------------------------------
(* Claims about date_trunc_single *)

\* is v the first instant of a bucket of granularity g?
IsBucketStart(g, v) ==
    LET c == CivilFromDays(v[1])
    IN /\ v[3] = 0
       /\ g = "minute" => v[2] % 60 = 0
       /\ g = "hour" => v[2] % 3600 = 0
       /\ g \in {"day", "week", "month", "year"} => v[2] = 0
       /\ g = "week" => (v[1] + 3) % 7 = 0
       /\ g = "month" => c[3] = 1
       /\ g = "year" => c[2] = 1 /\ c[3] = 1

\* does the bucket of granularity g that starts at r hold t (r <= t < the next start)?
BucketHolds(g, r, t) ==
    /\ Leq(r, t)
    /\ g = "second" => Less(t, Plus(r, <<0, 1, 0>>))
    /\ g = "minute" => Less(t, Plus(r, <<0, 60, 0>>))
    /\ g = "hour" => Less(t, Plus(r, <<0, 3600, 0>>))
    /\ g = "day" => Less(t, Plus(r, <<1, 0, 0>>))
    /\ g = "week" => Less(t, Plus(r, <<7, 0, 0>>))
    /\ g = "month" => /\ CivilFromDays(t[1])[1] = CivilFromDays(r[1])[1]
                      /\ CivilFromDays(t[1])[2] = CivilFromDays(r[1])[2]
    /\ g = "year" => CivilFromDays(t[1])[1] = CivilFromDays(r[1])[1]

\* C1: for every supported granularity and every timestamp t, date_trunc(g, t) is
\* the start of the g-bucket that contains t: it is a bucket start, it is <= t and
\* no other bucket start lies in (r, t].
C1_TruncIsBucketStart ==
    (r1 # Pending /\ gran \in Granularities) =>
        /\ IsOk(r1)
        /\ IsBucketStart(gran, r1.val)
        /\ BucketHolds(gran, r1.val, t1)

\* C4: date_trunc(g, date_trunc(g, t)) = date_trunc(g, t) for every supported
\* granularity g and every timestamp t.
C4_TruncIdempotent ==
    (r1 # Pending /\ gran \in Granularities) =>
        /\ IsOk(r1)
        /\ rr # Pending => rr = r1

\* C5: t1 <= t2 implies date_trunc(g, t1) <= date_trunc(g, t2) for every supported
\* granularity g.
C5_TruncMonotone ==
    (r1 # Pending /\ r2 # Pending /\ gran \in Granularities) =>
        /\ IsOk(r1) /\ IsOk(r2)
        /\ Leq(r1.val, r2.val)

----------------------------------------------------------------------------
(* SpecCall: one of the six functions called on an argument slice *)

InitCall ==
    /\ overflow_checks \in BOOLEAN
    /\ args \in CallArguments
    /\ IdleCall /\ IdleTrunc /\ IdleParse /\ IdleNow

Invoke(name, r) ==
    /\ call' = name
    /\ ret' = r.out
    /\ oplog' = r.seen
    /\ UNCHANGED <<overflow_checks, gran, t1, t2, r1, r2, rr, args, res,
                   now_fn, now_instant, now_rets>>

ToTimestamp == Invoke("to_timestamp", to_timestamp(args))
ToTimestampMillis == Invoke("to_timestamp_millis", to_timestamp_millis(args))
ToTimestampMicros == Invoke("to_timestamp_micros", to_timestamp_micros(args))
ToTimestampSeconds == Invoke("to_timestamp_seconds", to_timestamp_seconds(args))
DateTrunc == Invoke("date_trunc", date_trunc(args))
DatePart == Invoke("date_part", date_part(args))

NextCall ==
    \/ ToTimestamp
    \/ ToTimestampMillis
    \/ ToTimestampMicros
    \/ ToTimestampSeconds
    \/ DateTrunc
    \/ DatePart

SpecCall == InitCall /\ [][NextCall]_vars

----------------------------------------------------------------------------
(* Claims about the calls *)

Called == call # "none"

\* the argument the elements of a call are taken from
Subject == IF call \in ToTimestampFns THEN args[1] ELSE args[2]
HasSubject == Called /\ Len(args) >= (IF call \in ToTimestampFns THEN 1 ELSE 2)

IsNullScalarOf(c, variants) ==
    Shape(c) = "Scalar" /\ Variant(ScalarOf(c)) \in variants /\ ~IsSome(Payload(ScalarOf(c)))

IsTextArray(c) == Shape(c) = "Array" /\ DataTypeOf(c) \in {Utf8, LargeUtf8}

\* the calls on a null scalar whose other arguments are in order
NullScalarCall ==
    /\ HasSubject
    /\ CASE call \in ToTimestampFns -> IsNullScalarOf(Subject, {"Utf8", "LargeUtf8"})
         [] call = "date_trunc" ->
                /\ IsNonNullUtf8Scalar(args[1])
                /\ IsNullScalarOf(Subject, {"TimestampNanosecond"})
         [] call = "date_part" ->
                /\ Len(args) = 2
                /\ IsNonNullUtf8Scalar(args[1])
                /\ to_lowercase(Payload(ScalarOf(args[1]))[1]) \in {"hour", "year"}
                /\ IsNullScalarOf(Subject, {"TimestampNanosecond"})
                /\ Tz(ScalarOf(Subject)) = None

\* the null scalar of the output type of the function called
NullScalarOut ==
    CASE call = "to_timestamp" -> Scalar("TimestampNanosecond", None, None)
      [] call = "to_timestamp_millis" -> Scalar("TimestampMillisecond", None, None)
      [] call = "to_timestamp_micros" -> Scalar("TimestampMicrosecond", None, None)
      [] call = "to_timestamp_seconds" -> Scalar("TimestampSecond", None, None)
      [] call = "date_trunc" -> Scalar("TimestampNanosecond", None, Tz(ScalarOf(Subject)))
      [] call = "date_part" -> Scalar("Int32", None, None)

IsTimestampArgument(c) ==
    \/ Shape(c) = "Scalar" /\ Variant(ScalarOf(c)) = "TimestampNanosecond"
    \/ Shape(c) = "Array" /\ IsInt64Array(DataTypeOf(c))

\* the elements of a timestamp argument
ElementsOf(c) == IF Shape(c) = "Scalar" THEN <<Payload(ScalarOf(c))>> ELSE ValuesOf(c)

\* date_trunc called with a granularity name it does not know, on a timestamp argument
UnknownGranularityCall ==
    /\ call = "date_trunc"
    /\ Len(args) >= 2
    /\ IsNonNullUtf8Scalar(args[1])
    /\ Payload(ScalarOf(args[1]))[1] \notin Granularities
    /\ IsTimestampArgument(args[2])

IsUnsupportedGranularity(r, g) ==
    /\ IsErr(r)
    /\ r.val[1] = "Execution"
    /\ r.val[2] = <<"Unsupported date_trunc granularity: ", g>>

\* C6, as stated: for a granularity name outside the seven and every timestamp
\* argument (Scalar or Array, null or not, of any length), date_trunc returns the
\* execution error "Unsupported date_trunc granularity: {g}" and never a value.
C6_UnknownGranularityAlwaysError ==
    UnknownGranularityCall => IsUnsupportedGranularity(ret, Payload(ScalarOf(args[1]))[1])

\* the first element that is not null, and whether there is one
RECURSIVE FirstNonNull(_)
FirstNonNull(values) ==
    IF values = <<>> THEN None
    ELSE IF IsSome(Head(values)) THEN Head(values) ELSE FirstNonNull(Tail(values))

\* an instant before 1970 that is not a whole second
IsNegativeFractional(t) == Less(t, <<0, 0, 0>>) /\ t[3] # 0

\* C6, amended: for a granularity name outside the seven, date_trunc on a timestamp
\* argument without an element that is not null returns the null value of the same
\* shape; on any other it returns no value: the execution error that names the
\* granularity, or, where the first element that is not null is an instant before
\* 1970 with a fraction of a second, the panic of the conversion to a date and time.
C6_UnknownGranularity ==
    UnknownGranularityCall =>
        LET g == Payload(ScalarOf(args[1]))[1]
            first == FirstNonNull(ElementsOf(args[2]))
        IN /\ ~IsSome(first) =>
                /\ IsOk(ret)
                /\ Shape(ret.val) = Shape(args[2])
                /\ ElementsOf(ret.val) = ElementsOf(args[2])
           /\ (IsSome(first) /\ ~IsNegativeFractional(first[1])) =>
                IsUnsupportedGranularity(ret, g)
           /\ (IsSome(first) /\ IsNegativeFractional(first[1])) => ret.kind = "Panic"

\* date_trunc("century", [null, 2020-09-08T13:42:29.190855Z]) has returned the error
C6_Witness ==
    /\ UnknownGranularityCall
    /\ Shape(args[2]) = "Array"
    /\ Len(ValuesOf(args[2])) = 2
    /\ ~IsSome(ValuesOf(args[2])[1])
    /\ IsSome(ValuesOf(args[2])[2])
    /\ IsUnsupportedGranularity(ret, "century")

\* a to_timestamp function called on an argument that is not text
UnsupportedTypeCall ==
    /\ call \in ToTimestampFns
    /\ Len(args) >= 1
    /\ \/ Shape(args[1]) = "Array" /\ DataTypeOf(args[1]) \notin {Utf8, LargeUtf8}
       \/ Shape(args[1]) = "Scalar" /\ Variant(ScalarOf(args[1])) \notin {"Utf8", "LargeUtf8"}

HasRejected(values) ==
    \E i \in 1..Len(values) : IsSome(values[i]) /\ values[i][1] \notin ParseableTexts

\* C8: a to_timestamp function on a text Array fails if and only if the parser
\* rejects an element that is not null; it then returns no Array, and an element
\* that is not null never becomes a null of the output.
C8_NoPartialResults ==
    (call \in ToTimestampFns /\ Len(args) >= 1 /\ IsTextArray(args[1])) =>
        LET values == ValuesOf(args[1])
        IN /\ IsErr(ret) <=> HasRejected(values)
           /\ ~IsErr(ret) =>
                /\ IsOk(ret)
                /\ Shape(ret.val) = "Array"
                /\ Len(ValuesOf(ret.val)) = Len(values)
                /\ \A i \in 1..Len(values) :
                      IsSome(values[i]) => IsSome(ValuesOf(ret.val)[i])

\* to_timestamp_millis on ["1970-01-01T00:00:01.5Z", "not a timestamp"] has failed
C8_Witness ==
    /\ call = "to_timestamp_millis"
    /\ Len(args) = 1
    /\ IsTextArray(args[1])
    /\ oplog = <<Some("1970-01-01T00:00:01.5Z"), Some("not a timestamp")>>
    /\ IsErr(ret)
    /\ ret.val[1] = "ArrowError"

\* C9: date_trunc and date_part, called with a granularity or field argument that is
\* not a non-null scalar Utf8 or without their second argument, return an Execution
\* error to the caller: no such call crashes, none returns a value.
C9_MalformedShapeIsError ==
    (call \in {"date_trunc", "date_part"}
        /\ (Len(args) < 2 \/ ~IsNonNullUtf8Scalar(args[1]))) =>
        /\ IsErr(ret)
        /\ ret.val[1] = "Execution"

----------------------------------------------------------------------------
(* SpecParse: the four to_timestamp functions on the same argument *)

ParseArguments ==
    {<<x>> : x \in TextArrays \cup TextScalars \cup OtherArrays \cup OtherScalars}

InitParse ==
    /\ overflow_checks = FALSE
    /\ args \in ParseArguments
    /\ IdleParse /\ IdleCall /\ IdleTrunc /\ IdleNow

Parse(name, r) ==
    /\ res[name] = Pending
    /\ res' = [res EXCEPT ![name] = r.out]
    /\ UNCHANGED <<overflow_checks, gran, t1, t2, r1, r2, rr, args, call, ret, oplog,
                   now_fn, now_instant, now_rets>>

ParseNanos == Parse("to_timestamp", to_timestamp(args))
ParseMillis == Parse("to_timestamp_millis", to_timestamp_millis(args))
ParseMicros == Parse("to_timestamp_micros", to_timestamp_micros(args))
ParseSeconds == Parse("to_timestamp_seconds", to_timestamp_seconds(args))

NextParse == ParseNanos \/ ParseMillis \/ ParseMicros \/ ParseSeconds

SpecParse == InitParse /\ [][NextParse]_vars

----------------------------------------------------------------------------
(* Claims about the four precisions *)

Divisor ==
    [f \in ToTimestampFns |->
        CASE f = "to_timestamp" -> 1
          [] f = "to_timestamp_millis" -> 1000000
          [] f = "to_timestamp_micros" -> 1000
          [] f = "to_timestamp_seconds" -> 1000000000]

\* is q the quotient of n by d rounded toward zero?
IsTruncatedQuotient(n, d, q) ==
    LET r == n - q * d
    IN IF n >= 0 THEN 0 <= r /\ r < d ELSE -d < r /\ r <= 0

IsTextArgument(c) ==
    \/ IsTextArray(c)
    \/ Shape(c) = "Scalar" /\ Variant(ScalarOf(c)) \in {"Utf8", "LargeUtf8"}

Done(f) == res[f].kind # "Pending"

\* C3: on the same text, to_timestamp_millis, to_timestamp_micros and
\* to_timestamp_seconds return to_timestamp's nanoseconds divided by 1_000_000, 1_000
\* and 1_000_000_000, rounded toward zero also where they are negative; on a text the
\* parser rejects all four fail.
C3_DivisorConsistency ==
    \A f \in ToTimestampFns :
        (IsTextArgument(args[1]) /\ Done("to_timestamp") /\ Done(f)) =>
            LET n == res["to_timestamp"]
                m == res[f]
                texts == ElementsOf(args[1])
            IN /\ HasRejected(texts) => IsErr(n) /\ IsErr(m)
               /\ ~HasRejected(texts) =>
                    /\ IsOk(n) /\ IsOk(m)
                    /\ Shape(m.val) = Shape(args[1])
                    /\ Len(ElementsOf(m.val)) = Len(texts)
                    /\ \A i \in 1..Len(texts) :
                          IF IsSome(texts[i])
                          THEN /\ IsSome(ElementsOf(m.val)[i])
                               /\ ElementsOf(n.val)[i] = Some(ParseTable[texts[i][1]])
                               /\ IsTruncatedQuotient(ElementsOf(n.val)[i][1], Divisor[f],
                                                      ElementsOf(m.val)[i][1])
                          ELSE ~IsSome(ElementsOf(m.val)[i])

\* the four functions on "1969-12-31T23:59:58.4985Z": -1501500000, -1501, -1501500, -1
C3_Witness ==
    /\ Shape(args[1]) = "Scalar"
    /\ Variant(ScalarOf(args[1])) = "Utf8"
    /\ Payload(ScalarOf(args[1])) = Some("1969-12-31T23:59:58.4985Z")
    /\ \A f \in ToTimestampFns : IsOk(res[f])
    /\ Payload(ScalarOf(res["to_timestamp"].val)) = Some(-1501500000)
    /\ Payload(ScalarOf(res["to_timestamp_millis"].val)) = Some(-1501)
    /\ Payload(ScalarOf(res["to_timestamp_micros"].val)) = Some(-1501500)
    /\ Payload(ScalarOf(res["to_timestamp_seconds"].val)) = Some(-1)

----------------------------------------------------------------------------
(* SpecNow: make_now binds an instant, the closure is called again and again *)

\* the planning-time instants: 1970-01-01T00:00:00Z, 2020-09-08T13:42:29.190855Z,
\* 2026-11-04T00:00:00.000000001Z, 1969-12-31T23:59:59.999999999Z
Instants ==
    {NaiveDateTime(0, 0, 0), NaiveDateTime(18513, 49349, 190855000),
     NaiveDateTime(20761, 0, 1), NaiveDateTime(-1, 86399, 999999999)}

NowArguments == {a \in CallArguments : Len(a) # 2}

InitNow ==
    /\ overflow_checks \in BOOLEAN
    /\ args = <<>>
    /\ IdleNow /\ IdleCall /\ IdleTrunc /\ IdleParse

MakeNow ==
    /\ now_fn = None
    /\ \E now_ts \in Instants :
          /\ IsOk(make_now(now_ts))
          /\ now_fn' = Some(make_now(now_ts).val)
          /\ now_instant' = Some(now_ts)
    /\ UNCHANGED <<overflow_checks, gran, t1, t2, r1, r2, rr, args, call, ret, oplog, res,
                   now_rets>>

Now ==
    /\ IsSome(now_fn)
    /\ Len(now_rets) < MaxCalls
    /\ \E a \in NowArguments :
          /\ args' = a
          /\ now_rets' = Append(now_rets, now(now_fn[1], a))
    /\ UNCHANGED <<overflow_checks, gran, t1, t2, r1, r2, rr, call, ret, oplog, res,
                   now_fn, now_instant>>

NextNow == MakeNow \/ Now

SpecNow == InitNow /\ [][NextNow]_vars

----------------------------------------------------------------------------
(* Claims about now *)

\* the nanoseconds since the epoch of an instant of the i64 range
NanosOf(d) == <<d.days, d.secs, d.frac>>

\* C10: every call of the function make_now(instant) returns, whatever its
\* arguments and whatever was called before, succeeds with the same Scalar
\* TimestampNanosecond: the bound instant, with the timezone "UTC".
C10_NowConstant ==
    \A i \in 1..Len(now_rets) :
        /\ IsSome(now_instant)
        /\ IsOk(now_rets[i])
        /\ now_rets[i].val =
              ColumnarScalar(Scalar("TimestampNanosecond",
                                    Some(NanosOf(now_instant[1])), Some("UTC")))

\* the function bound to 2020-09-08T13:42:29.190855Z, called twice, last with arguments
C10_Witness ==
    /\ now_instant = Some(NaiveDateTime(18513, 49349, 190855000))
    /\ Len(now_rets) >= 2
    /\ Len(args) >= 1
    /\ now_rets[1] = now_rets[2]
    /\ Payload(ScalarOf(now_rets[2].val)) = Some(<<18513, 49349, 190855000>>)

====
